---- MODULE Spec2Model ----
(***************************************************************************)
(* Sandbox lifecycle manager of prefect-bot.                               *)
(*                                                                         *)
(* The program constructs one sandbox object, of class                     *)
(* MountedDockerSandbox ("M", src/mounted_filesystem.py) or Knapsack       *)
(* ("K", src/main.py), and caller threads then run its tool methods.       *)
(* Every request to the container runtime is one step of the calling       *)
(* thread; what a method does between two requests belongs to the step of  *)
(* the earlier request.  Each request either succeeds or raises, and the   *)
(* process of a running container may end at any moment.                   *)
(*                                                                         *)
(* Spec     : one caller thread, from construction on (the blocking,       *)
(*            one-call-at-a-time use of the tools).                        *)
(* SpecConc : two caller threads running start_background_service and      *)
(*            stop_background_service on a constructed MountedDockerSandbox.*)
(* SpecFrame: one caller thread on a constructed MountedDockerSandbox;     *)
(*            the containers a failed stop left listed are noted.          *)
(* SpecLive : one caller thread making start calls, with weak fairness of  *)
(*            the call's steps.                                            *)
(***************************************************************************)
EXTENDS Integers, FiniteSets, Sequences, TLC

\* ---------------------------------------------------------------- bounds
MaxContainers == 2      \* containers the runtime creates in one behaviour
MaxRetries == 2         \* largest max_retries a caller passes
MaxRetriesConc == 1     \* largest max_retries of two concurrent callers

\* ------------------------------------------------------------- constants
Procs == {1, 2}                         \* caller threads
MainThread == {1}                       \* the caller thread of Spec
Classes == {"M", "K"}                   \* MountedDockerSandbox, Knapsack
ImageNames == {"prefect-sandbox", "alt"}
KnapsackImage == "prefect-sandbox"      \* Knapsack._docker_image_name
NoImage == "None"                       \* run_command(image=None)
Ids == 1..MaxContainers                 \* identifiers the runtime assigns
UnknownId == 0                          \* an identifier the runtime never assigns
RetryArgs == -1..MaxRetries
RetryArgsConc == 0..MaxRetriesConc
ExitCodes == {0, 1}                     \* zero and nonzero exit status

VARIABLES
    images,         \* set of image names present locally
    klass,          \* class of the sandbox object
    docker_images0, \* MountedDockerSandbox.docker_images[0]
    obj,            \* "none" | "ready" | "failed" (the constructor raised)
    prov,           \* what the last run of the provisioning validator did
    cstatus,        \* per id: "none" | "created" | "running" | "exited" | "removed"
    cexit,          \* per id: exit status of the container's process
    nextId,         \* number of containers created so far
    pc,             \* per thread: position in the running tool method
    op,             \* per thread: "none" | "run" | "start" | "stop"
    arg,            \* per thread: image (run) or container_id (stop)
    max_retries,    \* per thread: start_background_service's max_retries
    retry_count,    \* per thread: start_background_service's retry_count
    h,              \* per thread: the container handle held (0: none)
    st,             \* per thread: container.status cached in the handle
    res,            \* per thread: what the call gave its caller
    reqs,           \* per thread: requests the current call has issued
    confirmed,      \* identifiers named in a success message of start
    cmount,         \* per id: the volumes the container was created with
    run_image,      \* per thread: the image argument of the call's containers.run
    polls,          \* per thread: container.reload() requests of the call
    sleeps,         \* per thread: time.sleep calls of the call
    seen,           \* per thread: status the last reload that returned gave
    stopfailed      \* identifiers a stop call failed on and left listed

vars == <<images, klass, docker_images0, obj, prov, cstatus, cexit, nextId,
          pc, op, arg, max_retries, retry_count, h, st, res, reqs, confirmed,
          cmount, run_image, polls, sleeps, seen, stopfailed>>

rtvars == <<images, cstatus, cexit, nextId>>
objvars == <<klass, docker_images0, obj, prov>>
callvars == <<op, arg, max_retries>>
counters == <<run_image, polls, sleeps, seen>>

NoMount == [host |-> "none", bind |-> "none", mode |-> "none"]

NoRes == [kind |-> "none", cause |-> "none", n |-> 0]
NoProv == [checks |-> 0, builds |-> 0, tag |-> "none", present |-> FALSE,
           got |-> "none", built |-> "na", outcome |-> "none"]

InitCalls ==
    /\ cstatus = [i \in Ids |-> "none"]
    /\ cexit = [i \in Ids |-> 0]
    /\ nextId = 0
    /\ pc = [p \in Procs |-> "idle"]
    /\ op = [p \in Procs |-> "none"]
    /\ arg = [p \in Procs |-> NoImage]
    /\ max_retries = [p \in Procs |-> 0]
    /\ retry_count = [p \in Procs |-> 0]
    /\ h = [p \in Procs |-> 0]
    /\ st = [p \in Procs |-> "none"]
    /\ res = [p \in Procs |-> NoRes]
    /\ reqs = [p \in Procs |-> {}]
    /\ confirmed = {}
    /\ cmount = [i \in Ids |-> NoMount]
    /\ run_image = [p \in Procs |-> "none"]
    /\ polls = [p \in Procs |-> 0]
    /\ sleeps = [p \in Procs |-> 0]
    /\ seen = [p \in Procs |-> "none"]
    /\ stopfailed = {}

Init ==
    /\ images \in SUBSET ImageNames
    /\ klass = "M"
    /\ docker_images0 = "prefect-sandbox"
    /\ obj = "none"
    /\ prov = NoProv
    /\ InitCalls

\* ------------------------------------------------------------ provisioning

\* The image the object provisions and runs by default.
DefaultImage(c, name) == IF c = "M" THEN name ELSE KnapsackImage

\* Variant: the build tag is the literal name whatever docker_images[0] is.
BuildTagLiteral(c, name) == "prefect-sandbox"

\* The tag the validator passes to images.build.
BuildTag(c, name) == IF c = "M" THEN name ELSE "prefect-sandbox"

\* images.get as the runtime answers it.
ImagesGet(name) == IF name \in images THEN "found" ELSE "notfound"

\* The except clause of the validator: only ImageNotFound leads to a build.
NeedsBuild(got) == got = "notfound"

\* Variant: the validator swallows a failing build.
BuildFailureSwallowed == FALSE

\* Whether the validator's except clause lets a failing build out.
BuildFailureRaises == TRUE

\* The provisioning validator, run by the constructor of class c with
\* docker_images[0] = name.
\*   clientOk: docker.from_env() returns;  getFault: images.get raises an
\*   error other than ImageNotFound;  buildOk: images.build returns.
Provision(c, name, clientOk, getFault, buildOk) ==
    LET img == DefaultImage(c, name)
        got == IF getFault THEN "error" ELSE ImagesGet(img)
        P(ch, g, b, t, bt, o) ==
            [checks |-> ch, builds |-> b, tag |-> t, present |-> img \in images,
             got |-> g, built |-> bt, outcome |-> o]
    IN  IF ~clientOk
        THEN /\ obj' = "failed"
             /\ prov' = P(0, "none", 0, "none", "na", "raised")
             /\ UNCHANGED images
        ELSE IF got = "found"
        THEN /\ obj' = "ready"
             /\ prov' = P(1, got, 0, "none", "na", "ok")
             /\ UNCHANGED images
        ELSE IF NeedsBuild(got)
        THEN IF buildOk
             THEN /\ obj' = "ready"
                  /\ images' = images \cup {BuildTag(c, name)}
                  /\ prov' = P(1, got, 1, BuildTag(c, name), "ok", "ok")
             ELSE /\ obj' = IF BuildFailureRaises THEN "failed" ELSE "ready"
                  /\ prov' = P(1, got, 1, BuildTag(c, name), "failed",
                               IF BuildFailureRaises THEN "raised" ELSE "swallowed")
                  /\ UNCHANGED images
        ELSE /\ obj' = "failed"
             /\ prov' = P(1, got, 0, "none", "na", "raised")
             /\ UNCHANGED images

\* The program (re)starts and constructs its sandbox object: the validators
\* run; a raising validator leaves no object.
Construct(c, name) ==
    /\ \A p \in Procs : pc[p] = "idle"
    /\ c = "K" => name = KnapsackImage
    /\ klass' = c
    /\ docker_images0' = name
    /\ \E clientOk \in BOOLEAN, getFault \in BOOLEAN, buildOk \in BOOLEAN :
          Provision(c, name, clientOk, getFault, buildOk)
    /\ UNCHANGED <<cstatus, cexit, nextId, pc, op, arg, max_retries,
                   retry_count, h, st, res, reqs, confirmed>>
    /\ UNCHANGED <<cmount, counters, stopfailed>>

\* ------------------------------------------------------- container runtime

\* Containers the runtime lists.
Exists(id) == id \in Ids /\ cstatus[id] \in {"created", "running", "exited"}

\* Effect of a stop request the runtime accepts: a running container is
\* stopped; a container that is not running is left as it is.
StopEffect(id) ==
    /\ cstatus' = [cstatus EXCEPT ![id] = IF @ = "running" THEN "exited" ELSE @]
    /\ cexit' = [cexit EXCEPT ![id] = IF cstatus[id] = "running" THEN 1 ELSE @]

\* Variant: the runtime accepts the remove request and keeps the container.
RemoveEffectKeeps(id) == UNCHANGED cstatus

\* Effect of a remove request the runtime accepts.
RemoveEffect(id) == cstatus' = [cstatus EXCEPT ![id] = "removed"]

\* Variant: the runtime accepts every remove request.
RemovableAlways(id) == TRUE

\* The runtime refuses to remove a running container (no force flag is passed).
Removable(id) == Exists(id) /\ cstatus[id] # "running"

\* The process of a running container ends on its own with an exit status.
ContainerExits(id, code) ==
    /\ cstatus[id] = "running"
    /\ cstatus' = [cstatus EXCEPT ![id] = "exited"]
    /\ cexit' = [cexit EXCEPT ![id] = code]
    /\ UNCHANGED <<images, nextId, objvars, confirmed, pc, callvars, retry_count, h, st,
                   res, reqs>>
    /\ UNCHANGED <<cmount, counters, stopfailed>>

\* ------------------------------------------------------- exception handling

\* Variant: every method obtains its client before its try statement.
InTryClientOutside(c, o, step) == step # "client"

\* Whether a step of method o of class c lies inside the method's try block.
\* Knapsack.run_command obtains its client before the try statement.
InTry(c, o, step) == ~(c = "K" /\ o = "run" /\ step = "client")

\* An exception raised at a step: the except clause turns it into the
\* failure string, or it leaves the method.
Fault(p, step, cause) ==
    /\ pc' = [pc EXCEPT ![p] = "done"]
    /\ res' = [res EXCEPT ![p] =
          [kind |-> IF InTry(klass, op[p], step) THEN "fail" ELSE "raised",
           cause |-> cause, n |-> 0]]

\* What an exception of a request on container id says.
Cause(id) == IF Exists(id) THEN "daemon" ELSE "notfound"

\* The caller takes the result; the thread is free for the next call.
\* sf: the identifiers noted as left behind by a failed stop.
ReturnTo(p, sf) ==
    /\ pc[p] = "done"
    /\ pc' = [pc EXCEPT ![p] = "idle"]
    /\ op' = [op EXCEPT ![p] = "none"]
    /\ arg' = [arg EXCEPT ![p] = NoImage]
    /\ max_retries' = [max_retries EXCEPT ![p] = 0]
    /\ retry_count' = [retry_count EXCEPT ![p] = 0]
    /\ h' = [h EXCEPT ![p] = 0]
    /\ st' = [st EXCEPT ![p] = "none"]
    /\ res' = [res EXCEPT ![p] = NoRes]
    /\ reqs' = [reqs EXCEPT ![p] = {}]
    /\ run_image' = [run_image EXCEPT ![p] = "none"]
    /\ polls' = [polls EXCEPT ![p] = 0]
    /\ sleeps' = [sleeps EXCEPT ![p] = 0]
    /\ seen' = [seen EXCEPT ![p] = "none"]
    /\ stopfailed' = sf
    /\ UNCHANGED <<rtvars, objvars, confirmed, cmount>>

Return(p) == ReturnTo(p, stopfailed)

\* The same return, with a note of the container a failed stop left listed.
ReturnNoting(p) ==
    ReturnTo(p, IF op[p] = "stop" /\ res[p].kind \in {"fail", "stopfail"}
                   /\ Exists(arg[p])
                THEN stopfailed \cup {arg[p]} ELSE stopfailed)

\* self.docker_client, docker.from_env(): the first step of every tool method.
GetClient(p) ==
    /\ pc[p] \in {"run_client", "st_client", "sp_client"}
    /\ \/ /\ pc' = [pc EXCEPT ![p] = CASE pc[p] = "run_client" -> "run_create"
                                       [] pc[p] = "st_client" -> "st_create"
                                       [] OTHER -> "sp_get"]
          /\ UNCHANGED res
       \/ Fault(p, "client", "client")
    /\ UNCHANGED <<rtvars, objvars, confirmed, callvars, retry_count, h, st, reqs>>
    /\ UNCHANGED <<cmount, counters, stopfailed>>

\* Variant: the scratchpad is bound writable.
VolumesWritable(c, o) == [host |-> "scratchpad", bind |-> "/app/scratchpad", mode |-> "rw"]

\* The volumes argument of both containers.run call sites: the scratchpad
\* directory of the host, bound read-only at /app/scratchpad.
Volumes(c, o) == [host |-> "scratchpad", bind |-> "/app/scratchpad", mode |-> "ro"]

\* containers.create inside containers.run: the runtime assigns the
\* identifier; a missing image makes it raise.
Create(p, image, next) ==
    \/ /\ nextId < MaxContainers
       /\ image \in images
       /\ nextId' = nextId + 1
       /\ cstatus' = [cstatus EXCEPT ![nextId + 1] = "created"]
       /\ cmount' = [cmount EXCEPT ![nextId + 1] = Volumes(klass, op[p])]
       /\ h' = [h EXCEPT ![p] = nextId + 1]
       /\ st' = [st EXCEPT ![p] = "created"]
       /\ pc' = [pc EXCEPT ![p] = next]
       /\ UNCHANGED <<images, cexit, res>>
    \/ /\ image \notin images
       /\ Fault(p, "create", "image")
       /\ UNCHANGED <<rtvars, cmount, h, st>>
    \/ /\ Fault(p, "create", "daemon")
       /\ UNCHANGED <<rtvars, cmount, h, st>>

\* container.start inside containers.run.
Start(p, next) ==
    \/ /\ cstatus[h[p]] = "created"
       /\ cstatus' = [cstatus EXCEPT ![h[p]] = "running"]
       /\ pc' = [pc EXCEPT ![p] = next]
       /\ UNCHANGED res
    \/ /\ Fault(p, "start", Cause(h[p]))
       /\ UNCHANGED cstatus

\* -------------------------------------------------------------- run_command

\* Variant: the image argument is ignored.
RunImageDefaultOnly(c, image) == DefaultImage(c, docker_images0)

\* `image or self.docker_images[0]`; Knapsack.run_command takes no image.
RunImage(c, image) ==
    IF c = "M" /\ image # NoImage THEN image ELSE DefaultImage(c, docker_images0)

BeginRun(p, image) ==
    /\ pc[p] = "idle"
    /\ obj = "ready"
    /\ klass = "K" => image = NoImage
    /\ pc' = [pc EXCEPT ![p] = "run_client"]
    /\ op' = [op EXCEPT ![p] = "run"]
    /\ arg' = [arg EXCEPT ![p] = image]
    /\ UNCHANGED <<rtvars, objvars, confirmed, max_retries, retry_count, h, st, res, reqs>>
    /\ UNCHANGED <<cmount, counters, stopfailed>>

RunCreate(p) ==
    /\ pc[p] = "run_create"
    /\ Create(p, RunImage(klass, arg[p]), "run_start")
    /\ run_image' = [run_image EXCEPT ![p] = RunImage(klass, arg[p])]
    /\ UNCHANGED <<objvars, confirmed, callvars, retry_count, reqs>>
    /\ UNCHANGED <<polls, sleeps, seen, stopfailed>>

RunStart(p) ==
    /\ pc[p] = "run_start"
    /\ Start(p, "run_wait")
    /\ UNCHANGED <<images, cexit, nextId, objvars, confirmed, callvars, retry_count, h, st,
                   reqs>>
    /\ UNCHANGED <<cmount, counters, stopfailed>>

\* container.wait (with the log stream attached) inside containers.run: it
\* returns once the process has exited.  With remove=True containers.run
\* removes the container after a wait that returned, and only then.
RunWait(p) ==
    /\ pc[p] = "run_wait"
    /\ \/ /\ cstatus[h[p]] = "exited"
          /\ pc' = [pc EXCEPT ![p] = "run_remove"]
          /\ UNCHANGED res
       \/ Fault(p, "wait", Cause(h[p]))
    /\ UNCHANGED <<rtvars, objvars, confirmed, callvars, retry_count, h, st, reqs>>
    /\ UNCHANGED <<cmount, counters, stopfailed>>

\* What run_command returns once containers.run has removed the container:
\* containers.run raises ContainerError on a nonzero exit status; otherwise
\* run_command decodes the captured bytes, which fails on invalid UTF-8.
RunResult(code, decodes) ==
    IF code # 0 THEN [kind |-> "fail", cause |-> "exit", n |-> 0]
    ELSE IF decodes THEN [kind |-> "output", cause |-> "none", n |-> 0]
    ELSE [kind |-> "fail", cause |-> "decode", n |-> 0]

\* container.remove inside containers.run(remove=True), then the result.
RunRemove(p) ==
    /\ pc[p] = "run_remove"
    /\ \/ /\ Removable(h[p])
          /\ RemoveEffect(h[p])
          /\ pc' = [pc EXCEPT ![p] = "done"]
          /\ \E decodes \in BOOLEAN :
                res' = [res EXCEPT ![p] = RunResult(cexit[h[p]], decodes)]
       \/ /\ Fault(p, "remove", Cause(h[p]))
          /\ UNCHANGED cstatus
    /\ UNCHANGED <<images, cexit, nextId, objvars, confirmed, callvars, retry_count, h, st,
                   reqs>>
    /\ UNCHANGED <<cmount, counters, stopfailed>>

\* ------------------------------------------------- start_background_service

BeginStart(p, mr) ==
    /\ pc[p] = "idle"
    /\ obj = "ready"
    /\ klass = "M"
    /\ pc' = [pc EXCEPT ![p] = "st_client"]
    /\ op' = [op EXCEPT ![p] = "start"]
    /\ max_retries' = [max_retries EXCEPT ![p] = mr]
    /\ retry_count' = [retry_count EXCEPT ![p] = 0]
    /\ UNCHANGED <<rtvars, objvars, confirmed, arg, h, st, res, reqs>>
    /\ UNCHANGED <<cmount, counters, stopfailed>>

\* Variant: the loop test admits one more iteration.
LoopHeadInclusive(rc, mr) == IF rc <= mr THEN "st_reload" ELSE "st_stop"

\* `while retry_count < max_retries`: poll again, or leave the loop.
LoopHead(rc, mr) == IF rc < mr THEN "st_reload" ELSE "st_stop"

\* The image argument of start_background_service's containers.run.
StartImage == DefaultImage("M", docker_images0)

StartCreate(p) ==
    /\ pc[p] = "st_create"
    /\ Create(p, StartImage, "st_start")
    /\ run_image' = [run_image EXCEPT ![p] = StartImage]
    /\ UNCHANGED <<objvars, confirmed, callvars, retry_count, reqs>>
    /\ UNCHANGED <<polls, sleeps, seen, stopfailed>>

StartStart(p) ==
    /\ pc[p] = "st_start"
    /\ Start(p, LoopHead(0, max_retries[p]))
    /\ UNCHANGED <<images, cexit, nextId, objvars, confirmed, callvars, retry_count, h, st,
                   reqs>>
    /\ UNCHANGED <<cmount, counters, stopfailed>>

\* Variant: the loop and the cleanup act on the most recently created container.
StartTargetLatest(p) == nextId

\* The container the loop and the cleanup of a start call act on: the handle
\* containers.run returned to this call.
StartTarget(p) == h[p]

\* Variant: any status other than "created" counts as started.
IsRunningNotCreated(s) == s # "created"

\* `if container.status == "running"`
IsRunning(s) == s = "running"

\* The ghost counters stop counting above any value a call reaches.
CountCap == MaxRetries + 2
Count(n) == IF n < CountCap THEN n + 1 ELSE n

\* Variant: the counter is left as it is.
NextRetryCountStuck(rc) == rc

\* `retry_count += 1`
NextRetryCount(rc) == rc + 1

\* One iteration of the loop: container.reload(), the status test, and
\* either the success message or the retry count and the sleep.
StartReload(p) ==
    /\ pc[p] = "st_reload"
    /\ LET t == StartTarget(p) IN
       \/ /\ Exists(t)
          /\ st' = [st EXCEPT ![p] = cstatus[t]]
          /\ seen' = [seen EXCEPT ![p] = cstatus[t]]
          /\ IF IsRunning(cstatus[t])
             THEN /\ pc' = [pc EXCEPT ![p] = "done"]
                  /\ res' = [res EXCEPT ![p] =
                        [kind |-> "started", cause |-> "none", n |-> h[p]]]
                  /\ confirmed' = confirmed \cup {h[p]}
                  /\ UNCHANGED <<retry_count, sleeps>>
             ELSE /\ retry_count' = [retry_count EXCEPT ![p] = NextRetryCount(@)]
                  /\ sleeps' = [sleeps EXCEPT ![p] = Count(@)]
                  /\ pc' = [pc EXCEPT ![p] =
                        LoopHead(NextRetryCount(retry_count[p]), max_retries[p])]
                  /\ UNCHANGED <<res, confirmed>>
       \/ /\ Fault(p, "reload", Cause(t))
          /\ UNCHANGED <<st, seen, retry_count, sleeps, confirmed>>
    /\ polls' = [polls EXCEPT ![p] = Count(@)]
    /\ reqs' = [reqs EXCEPT ![p] = @ \cup {<<"reload", StartTarget(p)>>}]
    /\ UNCHANGED <<rtvars, objvars, callvars, h, cmount, run_image, stopfailed>>

\* container.stop() after the loop.
StartStop(p) ==
    /\ pc[p] = "st_stop"
    /\ LET t == StartTarget(p) IN
       \/ /\ Exists(t)
          /\ StopEffect(t)
          /\ pc' = [pc EXCEPT ![p] = "st_remove"]
          /\ UNCHANGED res
       \/ /\ Fault(p, "stop", Cause(t))
          /\ UNCHANGED <<cstatus, cexit>>
    /\ reqs' = [reqs EXCEPT ![p] = @ \cup {<<"stop", StartTarget(p)>>}]
    /\ UNCHANGED <<images, nextId, objvars, confirmed, callvars, retry_count, h, st>>
    /\ UNCHANGED <<cmount, counters, stopfailed>>

\* container.remove() after the loop, then the retry-exhausted message.
StartRemove(p) ==
    /\ pc[p] = "st_remove"
    /\ LET t == StartTarget(p) IN
       \/ /\ Removable(t)
          /\ RemoveEffect(t)
          /\ pc' = [pc EXCEPT ![p] = "done"]
          /\ res' = [res EXCEPT ![p] =
                [kind |-> "exhausted", cause |-> "none", n |-> max_retries[p]]]
       \/ /\ Fault(p, "remove", Cause(t))
          /\ UNCHANGED cstatus
    /\ reqs' = [reqs EXCEPT ![p] = @ \cup {<<"remove", StartTarget(p)>>}]
    /\ UNCHANGED <<images, cexit, nextId, objvars, confirmed, callvars, retry_count, h, st>>
    /\ UNCHANGED <<cmount, counters, stopfailed>>

\* -------------------------------------------------- stop_background_service

BeginStop(p, cid) ==
    /\ pc[p] = "idle"
    /\ obj = "ready"
    /\ klass = "M"
    /\ pc' = [pc EXCEPT ![p] = "sp_client"]
    /\ op' = [op EXCEPT ![p] = "stop"]
    /\ arg' = [arg EXCEPT ![p] = cid]
    /\ UNCHANGED <<rtvars, objvars, confirmed, max_retries, retry_count, h, st, res, reqs>>
    /\ UNCHANGED <<cmount, counters, stopfailed>>

\* Variant: the handle is built without asking the runtime.
LookupLazy(cid) == TRUE

\* containers.get(container_id) finds the containers the runtime lists and
\* raises NotFound for any other identifier.
Lookup(cid) == Exists(cid)

StopGet(p) ==
    /\ pc[p] = "sp_get"
    /\ \/ /\ Lookup(arg[p])
          /\ h' = [h EXCEPT ![p] = arg[p]]
          /\ st' = [st EXCEPT ![p] =
                IF arg[p] \in Ids THEN cstatus[arg[p]] ELSE "none"]
          /\ pc' = [pc EXCEPT ![p] = "sp_stop"]
          /\ UNCHANGED res
       \/ /\ ~Lookup(arg[p])
          /\ Fault(p, "get", "notfound")
          /\ UNCHANGED <<h, st>>
       \/ /\ Fault(p, "get", "daemon")
          /\ UNCHANGED <<h, st>>
    /\ reqs' = [reqs EXCEPT ![p] = @ \cup {<<"get", arg[p]>>}]
    /\ UNCHANGED <<rtvars, objvars, confirmed, callvars, retry_count>>
    /\ UNCHANGED <<cmount, counters, stopfailed>>

\* container.stop()
StopStop(p) ==
    /\ pc[p] = "sp_stop"
    /\ \/ /\ Exists(h[p])
          /\ StopEffect(h[p])
          /\ pc' = [pc EXCEPT ![p] = "sp_reload"]
          /\ UNCHANGED res
       \/ /\ Fault(p, "stop", Cause(h[p]))
          /\ UNCHANGED <<cstatus, cexit>>
    /\ reqs' = [reqs EXCEPT ![p] = @ \cup {<<"stop", h[p]>>}]
    /\ UNCHANGED <<images, nextId, objvars, confirmed, callvars, retry_count, h, st>>
    /\ UNCHANGED <<cmount, counters, stopfailed>>

\* Variant: any status other than "running" counts as stopped.
IsExitedNotRunning(s) == s # "running"

\* Variant: the test compares with a status the runtime never reports.
IsExitedStopped(s) == s = "stopped"

\* `if container.status == "exited"`
IsExited(s) == s = "exited"

\* container.reload(), once, and the status test: go on to remove, or
\* return the failure message.
StopReload(p) ==
    /\ pc[p] = "sp_reload"
    /\ \/ /\ Exists(h[p])
          /\ st' = [st EXCEPT ![p] = cstatus[h[p]]]
          /\ seen' = [seen EXCEPT ![p] = cstatus[h[p]]]
          /\ IF IsExited(cstatus[h[p]])
             THEN /\ pc' = [pc EXCEPT ![p] = "sp_remove"]
                  /\ UNCHANGED res
             ELSE /\ pc' = [pc EXCEPT ![p] = "done"]
                  /\ res' = [res EXCEPT ![p] =
                        [kind |-> "stopfail", cause |-> "none", n |-> arg[p]]]
       \/ /\ Fault(p, "reload", Cause(h[p]))
          /\ UNCHANGED <<st, seen>>
    /\ polls' = [polls EXCEPT ![p] = Count(@)]
    /\ reqs' = [reqs EXCEPT ![p] = @ \cup {<<"reload", h[p]>>}]
    /\ UNCHANGED <<rtvars, objvars, confirmed, callvars, retry_count, h, sleeps,
                   cmount, run_image, stopfailed>>

\* container.remove(), then the success message.
StopRemove(p) ==
    /\ pc[p] = "sp_remove"
    /\ \/ /\ Removable(h[p])
          /\ RemoveEffect(h[p])
          /\ pc' = [pc EXCEPT ![p] = "done"]
          /\ res' = [res EXCEPT ![p] =
                [kind |-> "stopped", cause |-> "none", n |-> arg[p]]]
       \/ /\ Fault(p, "remove", Cause(h[p]))
          /\ UNCHANGED cstatus
    /\ reqs' = [reqs EXCEPT ![p] = @ \cup {<<"remove", h[p]>>}]
    /\ UNCHANGED <<images, cexit, nextId, objvars, confirmed, callvars, retry_count, h, st>>
    /\ UNCHANGED <<cmount, counters, stopfailed>>

\* ----------------------------------------------------------- specifications

StartSteps(p) ==
    \/ StartCreate(p) \/ StartStart(p) \/ StartReload(p) \/ StartStop(p)
    \/ StartRemove(p)

StopSteps(p) ==
    \/ StopGet(p) \/ StopStop(p) \/ StopReload(p) \/ StopRemove(p)

RunSteps(p) ==
    \/ RunCreate(p) \/ RunStart(p) \/ RunWait(p) \/ RunRemove(p)

Next ==
    \/ \E c \in Classes, name \in ImageNames : Construct(c, name)
    \/ \E i \in Ids, code \in ExitCodes : ContainerExits(i, code)
    \/ \E p \in MainThread :
          \/ \E image \in ImageNames \cup {NoImage} : BeginRun(p, image)
          \/ \E mr \in RetryArgs : BeginStart(p, mr)
          \/ \E cid \in Ids \cup {UnknownId} : BeginStop(p, cid)
          \/ GetClient(p)
          \/ RunSteps(p)
          \/ StartSteps(p)
          \/ StopSteps(p)
          \/ Return(p)

Spec == Init /\ [][Next]_vars

\* Two caller threads on a constructed MountedDockerSandbox whose image was
\* found present.  start and stop never read an exit status, so the services
\* here all end with the same one.
InitConc ==
    /\ images = {"prefect-sandbox"}
    /\ klass = "M"
    /\ docker_images0 = "prefect-sandbox"
    /\ obj = "ready"
    /\ prov = [checks |-> 1, builds |-> 0, tag |-> "none", present |-> TRUE,
               got |-> "found", built |-> "na", outcome |-> "ok"]
    /\ InitCalls

NextConc ==
    \/ \E i \in Ids : ContainerExits(i, 1)
    \/ \E p \in Procs :
          \/ \E mr \in RetryArgsConc : BeginStart(p, mr)
          \/ \E cid \in Ids \cup {UnknownId} : BeginStop(p, cid)
          \/ GetClient(p)
          \/ StartSteps(p)
          \/ StopSteps(p)
          \/ Return(p)

SpecConc == InitConc /\ [][NextConc]_vars

\* ------------------------------------------------------------------ claims

Returned(p, o) == pc[p] = "done" /\ op[p] = o

\* C1 (as claimed): every run_command call returns a string, the decoded
\* output or a failure string carrying the cause; no fault escapes.
C1_RunCommandNeverRaises ==
    \A p \in Procs : Returned(p, "run") =>
        /\ res[p].kind \in {"output", "fail"}
        /\ res[p].kind = "fail" => res[p].cause # "none"

\* C2 (as claimed): once run_command has returned, the container the call
\* created is no longer listed by the runtime.
C2_RunLeavesNoContainer ==
    \A p \in Procs : (Returned(p, "run") /\ h[p] # 0) => ~Exists(h[p])

\* C3 (as claimed): after start_background_service returned its success
\* message, the container it names has status running.
C3_RunningAfterSuccess ==
    \A p \in Procs : (Returned(p, "start") /\ res[p].kind = "started") =>
        cstatus[res[p].n] = "running"

\* C3 (amended): the success message names the container the call launched,
\* the call's last refresh observed it running, and afterwards the container
\* is running, exited or removed.
C3_RunningAtLastPoll ==
    \A p \in Procs : (Returned(p, "start") /\ res[p].kind = "started") =>
        /\ res[p].n = h[p]
        /\ st[p] = "running"
        /\ cstatus[h[p]] \in {"running", "exited", "removed"}

C3_Witness ==
    \E p \in Procs : /\ Returned(p, "start") /\ res[p].kind = "started"
                     /\ cstatus[h[p]] = "exited"

\* The call left the poll loop after max_retries unsuccessful polls: the
\* cleanup's stop request has been issued.
Exhausted(p) ==
    /\ op[p] = "start"
    /\ retry_count[p] = max_retries[p]
    /\ <<"stop", h[p]>> \in reqs[p]

\* C4 (as claimed): a start call that made max_retries polls without
\* observing running has removed its container when it returns, and its
\* message names max_retries.
C4_ExhaustedCleansUp ==
    \A p \in Procs : (pc[p] = "done" /\ Exhausted(p)) =>
        /\ ~Exists(h[p])
        /\ res[p].kind = "exhausted"
        /\ res[p].n = max_retries[p]

C6_UnknownIdStop ==
    [][\A p \in Procs :
          (pc[p] = "sp_get" /\ ~Exists(arg[p]) /\ pc'[p] # "sp_get") =>
             /\ pc'[p] = "done"
             /\ res'[p].kind = "fail"
             /\ reqs'[p] = {<<"get", arg[p]>>}
             /\ cstatus' = cstatus]_vars

C6_Witness ==
    \E p \in Procs : /\ Returned(p, "stop") /\ h[p] = 0
                     /\ res[p].cause = "notfound"
                     /\ arg[p] \in Ids /\ cstatus[arg[p]] = "removed"

\* C7: start_background_service and stop_background_service return a string
\* whichever step failed; no fault leaves them.
C7_StartStopNeverRaise ==
    \A p \in Procs : (pc[p] = "done" /\ op[p] \in {"start", "stop"}) =>
        res[p].kind \in {"started", "exhausted", "stopped", "stopfail", "fail"}

C7_Witness ==
    \E p \in Procs : /\ pc[p] = "done" /\ op[p] \in {"start", "stop"}
                     /\ res[p].kind = "fail" /\ res[p].cause = "client"

\* C8: provisioning makes at most one existence check; it builds exactly
\* when the check reported the image absent, once, with the default image
\* name as tag; a found image gives a ready object without a build; a
\* failing build leaves no object.
C8_BuildIffAbsent ==
    /\ prov.checks <= 1 /\ prov.builds <= 1
    /\ prov.builds = 1 <=> prov.got = "notfound"
    /\ prov.got = "found" => prov.present
    /\ prov.got = "notfound" => ~prov.present
    /\ prov.got = "found" => (prov.builds = 0 /\ prov.outcome = "ok")
    /\ prov.builds = 1 => prov.tag = DefaultImage(klass, docker_images0)
    /\ prov.built = "ok" => (obj = "ready" /\ prov.tag \in images)
    /\ prov.built = "failed" => (obj = "failed" /\ prov.outcome = "raised")

C8_Witness ==
    /\ klass = "M" /\ docker_images0 = "alt"
    /\ prov.built = "ok" /\ prov.tag = "alt" /\ ~prov.present

\* C9: a tool method is entered, and a container is created, only on an
\* object whose provisioning succeeded, with the default image present.
C9_ProvisionedBeforeLaunch ==
    [][((\E p \in Procs : pc[p] = "idle" /\ pc'[p] # "idle") \/ nextId' > nextId)
          => /\ obj = "ready"
             /\ prov.outcome = "ok"
             /\ DefaultImage(klass, docker_images0) \in images]_vars

C9_Witness ==
    /\ nextId > 0
    /\ prov.built = "ok"

\* C10: two start calls in flight hold distinct containers, every refresh,
\* stop and remove request of a start call names the container that call
\* launched, and its message follows from what it saw of that container.
C10_StartCallsIndependent ==
    /\ \A p, q \in Procs :
          (p # q /\ op[p] = "start" /\ op[q] = "start" /\ h[p] # 0) =>
              h[p] # h[q]
    /\ \A p \in Procs : op[p] = "start" =>
          /\ \A r \in reqs[p] : r[2] = h[p] /\ h[p] # 0
          /\ res[p].kind = "started" => (st[p] = "running" /\ res[p].n = h[p])
          /\ res[p].kind = "exhausted" =>
                (st[p] # "running" /\ ~Exists(h[p]))

C10_Witness ==
    \E p, q \in Procs :
        /\ p # q /\ op[p] = "start" /\ op[q] = "start"
        /\ res[p].kind = "exhausted" /\ <<"remove", h[p]>> \in reqs[p]
        /\ res[q].kind = "started" /\ Exists(h[q])

\* C11 (as claimed): a start call that created a container returns either
\* its success message with the container listed, or a failure message with
\* the container no longer listed.
C11_StartConfirmedOrCleaned ==
    \A p \in Procs : (Returned(p, "start") /\ h[p] # 0) =>
        \/ res[p].kind = "started" /\ Exists(h[p])
        \/ res[p].kind # "started" /\ ~Exists(h[p])

\* The number of polls max_retries allows: none when it is not positive.
Budget(mr) == IF mr > 0 THEN mr ELSE 0

CleanupRequests(p) == {r \in reqs[p] : r[1] \in {"stop", "remove"}}

\* C12: a start call refreshes the status at most max_retries times; its
\* success message follows the first refresh that saw running, with every
\* earlier refresh counted and slept on and no stop or remove issued; its
\* retry-exhausted message follows exactly max_retries refreshes, none of
\* which saw running.
C12_PollBudget ==
    \A p \in Procs : op[p] = "start" =>
        /\ polls[p] <= Budget(max_retries[p])
        /\ res[p].kind = "started" =>
              /\ seen[p] = "running"
              /\ polls[p] = retry_count[p] + 1
              /\ sleeps[p] = polls[p] - 1
              /\ CleanupRequests(p) = {}
        /\ res[p].kind = "exhausted" =>
              /\ polls[p] = Budget(max_retries[p])
              /\ retry_count[p] = polls[p]
              /\ seen[p] # "running"

C12_Witness ==
    \E p \in Procs : /\ Returned(p, "start") /\ res[p].kind = "exhausted"
                     /\ max_retries[p] = 2 /\ polls[p] = 2

\* What every stop call does around its refresh: at most one refresh, after
\* the stop request; a refresh that saw another status than exited gives the
\* failure message, no remove request, and the container stays listed.
StopSingleCheck(p) ==
    /\ polls[p] <= 1
    /\ polls[p] = 1 => <<"stop", h[p]>> \in reqs[p]
    /\ seen[p] # "none" => polls[p] = 1
    /\ (seen[p] # "none" /\ seen[p] # "exited" /\ pc[p] = "done") =>
          /\ res[p].kind = "stopfail"
          /\ <<"remove", h[p]>> \notin reqs[p]
          /\ Exists(h[p])

NextFrame ==
    \/ \E i \in Ids, code \in ExitCodes : ContainerExits(i, code)
    \/ \E p \in MainThread :
          \/ \E image \in ImageNames \cup {NoImage} : BeginRun(p, image)
          \/ \E mr \in RetryArgs : BeginStart(p, mr)
          \/ \E cid \in Ids \cup {UnknownId} : BeginStop(p, cid)
          \/ GetClient(p)
          \/ RunSteps(p)
          \/ StartSteps(p)
          \/ StopSteps(p)
          \/ ReturnNoting(p)

SpecFrame == InitConc /\ [][NextFrame]_vars

\* A stop call on a container that an earlier stop call left listed.
FreshStop(p) == op[p] = "stop" /\ arg[p] \in stopfailed

OnlyFreshStopRemoves ==
    \A i \in stopfailed :
        (Exists(i) /\ ~Exists(i)') =>
            \E p \in Procs : /\ FreshStop(p) /\ arg[p] = i
                             /\ pc[p] = "sp_remove" /\ seen[p] = "exited"
                             /\ res'[p].kind = "stopped"

PastLoop(p) == op[p] = "start" /\ pc[p] \in {"st_stop", "st_remove", "done"}

\* C15: the sleeps of start_background_service lie between two consecutive
\* polls: a call that made k polls slept at most k-1 times, and no sleep
\* follows the final poll.
C15_SleepsOnlyBetweenPolls ==
    \A p \in Procs : (PastLoop(p) /\ polls[p] >= 1) => sleeps[p] <= polls[p] - 1

\* C16: every container created by run_command or start_background_service
\* has the scratchpad bound at /app/scratchpad read-only.
C16_ScratchpadReadOnly ==
    \A i \in Ids : cstatus[i] # "none" =>
        /\ cmount[i].host = "scratchpad"
        /\ cmount[i].bind = "/app/scratchpad"
        /\ cmount[i].mode = "ro"

C16_Witness ==
    /\ klass = "K"
    /\ \E p \in Procs : /\ op[p] = "run" /\ h[p] \in Ids
                        /\ cmount[h[p]].mode = "ro"
                        /\ \E j \in Ids : j # h[p] /\ cmount[j].mode = "ro"

\* The default image: the one the constructor provisioned.
DefaultTarget == DefaultImage(klass, docker_images0)

\* The image each call that reached containers.run passed to it.
TargetsDefaultUnlessOverridden ==
    /\ prov.builds = 1 => prov.tag = DefaultTarget
    /\ \A p \in Procs : run_image[p] # "none" =>
          /\ op[p] = "start" => run_image[p] = DefaultTarget
          /\ (op[p] = "run" /\ arg[p] # NoImage) => run_image[p] = arg[p]
          /\ (op[p] = "run" /\ arg[p] = NoImage) => run_image[p] = DefaultTarget

\* C17: every execution targets the default image unless the call overrides
\* it: start always uses the default, run_command uses the supplied image
\* when one is given and the default otherwise, and no tool call changes the
\* default.
C17_DefaultImageUnlessOverridden ==
    /\ []TargetsDefaultUnlessOverridden
    /\ [][(\E p \in Procs : pc[p] # "idle") =>
             (klass' = klass /\ docker_images0' = docker_images0)]_vars

C17_Witness ==
    \E p \in Procs : /\ Returned(p, "run") /\ h[p] \in Ids
                     /\ arg[p] = "alt" /\ run_image[p] = "alt"
                     /\ docker_images0 = "prefect-sandbox"
                     /\ \E j \in Ids : j # h[p] /\ cstatus[j] # "none"

\* One caller thread that makes start calls on a constructed
\* MountedDockerSandbox.  Every runtime request and every sleep returns: a
\* step of the call that can be taken is taken.
NextLive ==
    \/ \E i \in Ids : ContainerExits(i, 1)
    \/ \E p \in MainThread :
          \/ \E mr \in RetryArgs : BeginStart(p, mr)
          \/ GetClient(p)
          \/ StartSteps(p)
          \/ Return(p)

SpecLive ==
    /\ InitConc
    /\ [][NextLive]_vars
    /\ \A p \in MainThread : WF_vars(GetClient(p) \/ StartSteps(p))

\* An unsuccessful poll: the refresh returned and the status was not running.
UnsuccessfulPoll(p) ==
    /\ StartReload(p)
    /\ pc'[p] # "done"

\* C18: start_background_service eventually returns: every unsuccessful poll
\* increases the loop counter by one, the counter never exceeds max_retries,
\* and nothing else in the operation waits.
C18_StartTerminates ==
    /\ \A p \in MainThread : (op[p] = "start") ~> (pc[p] = "done")
    /\ [][\A p \in MainThread : UnsuccessfulPoll(p) =>
             /\ retry_count'[p] = retry_count[p] + 1
             /\ retry_count'[p] <= Budget(max_retries[p])]_vars

C18_Witness ==
    \E p \in MainThread : /\ Returned(p, "start") /\ res[p].kind = "exhausted"
                          /\ retry_count[p] = MaxRetries
                          /\ sleeps[p] = MaxRetries

\* Two stop calls on the same identifier, both at their return.
BothStopped(p, q) ==
    /\ p # q
    /\ Returned(p, "stop") /\ Returned(q, "stop")
    /\ arg[p] = arg[q]

\* A container is taken off the runtime's list once: a removed container
\* stays removed, and a stop call gets its success message only in the step
\* that removes its container.
RemovedOnce ==
    /\ \A i \in Ids : cstatus[i] = "removed" => cstatus'[i] = "removed"
    /\ \A p \in Procs :
          (op[p] = "stop" /\ res[p].kind # "stopped" /\ res'[p].kind = "stopped")
              => (Exists(arg[p]) /\ ~Exists(arg[p])')

\* A request of a stop call (lookup, stop, refresh or remove) on a container
\* that is gone ends the call with the failure string.
GoneMeansFailure ==
    \A p \in Procs :
        (op[p] = "stop" /\ pc[p] \in {"sp_get", "sp_stop", "sp_reload", "sp_remove"}
            /\ arg[p] \in Ids /\ ~Exists(arg[p]) /\ pc'[p] # pc[p])
        => (pc'[p] = "done" /\ res'[p].kind = "fail")

\* C19: of two interleaved stop calls on the same identifier at most one
\* returns the success message, neither raises, the container is removed at
\* most once, and the call that lost returns a failure string.
C19_OneStopWins ==
    /\ [](\A p, q \in Procs :
            /\ op[p] = "stop" => res[p].kind # "raised"
            /\ (BothStopped(p, q) /\ res[p].kind = "stopped") =>
                  res[q].kind \in {"fail", "stopfail"})
    /\ [][RemovedOnce /\ GoneMeansFailure]_vars

C19_Witness ==
    \E p, q \in Procs : /\ BothStopped(p, q) /\ arg[p] \in Ids
                        /\ res[p].kind = "stopped"
                        /\ res[q].kind = "fail" /\ res[q].cause = "notfound"
                        /\ <<"stop", arg[q]>> \in reqs[q]

\* A start call with max_retries <= 0 whose launch returned: the loop is
\* skipped and the stop request has been made.
LaunchedWithoutBudget(p) ==
    /\ Returned(p, "start")
    /\ max_retries[p] <= 0
    /\ <<"stop", h[p]>> \in reqs[p]

\* C20: a start call with max_retries <= 0 launches a container, makes no
\* refresh and no sleep, stops and removes the container and returns the
\* retry-exhausted message; it never returns success.
C20_NoBudgetCleansUp ==
    \A p \in Procs :
        /\ (op[p] = "start" /\ max_retries[p] <= 0) =>
              (polls[p] = 0 /\ sleeps[p] = 0 /\ res[p].kind # "started")
        /\ LaunchedWithoutBudget(p) =>
              (res[p].kind = "exhausted" /\ ~Exists(h[p]))

====
